---- MODULE Spec2Model ----
(***************************************************************************)
(* FNV-1 / FNV-1a hashes of galerautils/src/gu_fnv.h at 32, 64 and 128     *)
(* bits.                                                                   *)
(*                                                                         *)
(* An unsigned integer of w bits is a sequence of w/16 digits of 16 bits,  *)
(* least significant digit first (index 1 holds bits 0..15).  This is the  *)
(* VALUE of the integer, not its memory layout: every C operator below is  *)
(* computed on these digits modulo 2^w, so that no number exceeds what     *)
(* TLC's integers hold.  A buffer is a sequence of bytes; the pointers bp  *)
(* and be are byte offsets from buf, which points to an array of len >= 0  *)
(* bytes, so that bp <= be - 2 compares offsets (be - 2 lies before the    *)
(* array when len < 2; no address wraps for an array that exists).         *)
(***************************************************************************)
EXTENDS Integers, Sequences, FiniteSets, TLC

(* ------------------------- C unsigned arithmetic ----------------------- *)

\* zero extension / truncation of x to n digits (an integer conversion in C)
Resize(x, n) == [i \in 1..n |-> IF i <= Len(x) THEN x[i] ELSE 0]

RECURSIVE XorBits(_, _, _)
XorBits(a, b, n) ==
    IF n = 0 THEN 0
    ELSE ((a + b) % 2) + 2 * XorBits(a \div 2, b \div 2, n - 1)

\* _s ^= _b with _b a uint8_t: only bits 0..7 of _s change
XorByte(x, b) ==
    [x EXCEPT ![1] = (x[1] \div 256) * 256 + XorBits(x[1] % 256, b, 8)]

RECURSIVE AddFrom(_, _, _, _)
AddFrom(x, y, i, c) ==
    IF i > Len(x) THEN << >>
    ELSE LET s == x[i] + y[i] + c
         IN  << s % 65536 >> \o AddFrom(x, y, i + 1, s \div 65536)

\* x + y modulo 2^(16*Len(x))
Add(x, y) == AddFrom(x, y, 1, 0)

\* x << k modulo 2^(16*Len(x))
Shl(x, k) ==
    LET q == k \div 16
        r == k % 16
    IN  [i \in 1..Len(x) |->
            (IF i - q >= 1 THEN (x[i - q] % (2 ^ (16 - r))) * (2 ^ r) ELSE 0)
          + (IF i - q - 1 >= 1 THEN x[i - q - 1] \div (2 ^ (16 - r)) ELSE 0)]

\* x >> 16*q (logical)
ShrDigits(x, q) == [i \in 1..Len(x) |-> IF i + q <= Len(x) THEN x[i + q] ELSE 0]

RECURSIVE ColSum(_, _, _, _)
\* the digit products x[j] * y[i-j+1] of column i, from j on
ColSum(x, y, i, j) ==
    IF j > i THEN 0
    ELSE (IF y[i - j + 1] = 0 THEN 0 ELSE x[j] * y[i - j + 1]) + ColSum(x, y, i, j + 1)

RECURSIVE MulFrom(_, _, _, _)
MulFrom(x, y, i, c) ==
    IF i > Len(x) THEN << >>
    ELSE LET s == ColSum(x, y, i, 1) + c
         IN  << s % 65536 >> \o MulFrom(x, y, i + 1, s \div 65536)

\* x * y modulo 2^(16*Len(x)): C's unsigned multiplication (long
\* multiplication; the multipliers of this file have digits below 2^9)
Mul(x, y) == MulFrom(x, Resize(y, Len(x)), 1, 0)

\* the value with its bytes in the opposite order
Reverse(x) ==
    [i \in 1..Len(x) |->
        LET d == x[Len(x) + 1 - i] IN (d % 256) * 256 + (d \div 256)]

(* ------------------------------ 32 bits -------------------------------- *)

\* a mistyped prime: 16777691 = 0x010001DB
GU_FNV32_PRIME_typo == << 475, 256 >>

\* 16777619 = 0x01000193
GU_FNV32_PRIME == << 403, 256 >>
\* 2166136261 = 0x811C9DC5
GU_FNV32_SEED == << 40389, 33052 >>

\* _x *= GU_FNV32_PRIME
GU_FNV32_MUL_DIRECT(x) == Mul(x, GU_FNV32_PRIME)

\* _x += (_x << 1) + (_x << 4) + (_x << 7) + (_x << 8) + (_x << 24)
GU_FNV32_MUL_SHIFT(x) ==
    Add(x, Add(Add(Add(Add(Shl(x, 1), Shl(x, 4)), Shl(x, 7)), Shl(x, 8)), Shl(x, 24)))

\* cfg.mul = "shift" is a build with GU_FNVBITSHIFT_OPTIMIZATION
GU_FNV32_MUL(cfg, x) ==
    IF cfg.mul = "shift" THEN GU_FNV32_MUL_SHIFT(x) ELSE GU_FNV32_MUL_DIRECT(x)

\* cfg.normal is a build with GU_FNV_NORMAL (FNV-1); the default is FNV-1a
GU_FNV32_ITERATION(cfg, s, b) ==
    IF ~cfg.normal THEN GU_FNV32_MUL(cfg, XorByte(s, b))
    ELSE XorByte(GU_FNV32_MUL(cfg, s), b)

RECURSIVE Loop32_strict(_, _, _, _)
\* the loop with its guard written bp < be - 2
Loop32_strict(cfg, buf, bp, s) ==
    IF bp < Len(buf) - 2
    THEN Loop32_strict(cfg, buf, bp + 2,
                GU_FNV32_ITERATION(cfg, GU_FNV32_ITERATION(cfg, s, buf[bp + 1]),
                                   buf[bp + 2]))
    ELSE [seed |-> s, bp |-> bp]

RECURSIVE Loop32(_, _, _, _)
\* while (bp <= be - 2) { two iterations }
Loop32(cfg, buf, bp, s) ==
    IF bp <= Len(buf) - 2
    THEN Loop32(cfg, buf, bp + 2,
                GU_FNV32_ITERATION(cfg, GU_FNV32_ITERATION(cfg, s, buf[bp + 1]),
                                   buf[bp + 2]))
    ELSE [seed |-> s, bp |-> bp]

\* if (bp < be) { one iteration }
Tail32(cfg, buf, r) ==
    IF r.bp < Len(buf)
    THEN [seed |-> GU_FNV32_ITERATION(cfg, r.seed, buf[r.bp + 1]), bp |-> r.bp + 1]
    ELSE r

\* the seed left in *seed and the cursor bp at assert(be == bp)
gu_fnv32a_internal(cfg, buf, seed) == Tail32(cfg, buf, Loop32(cfg, buf, 0, seed))

(* ------------------------------ 64 bits -------------------------------- *)

\* 1099511628211 = 0x00000100000001B3
GU_FNV64_PRIME == << 435, 0, 256, 0 >>
\* 14695981039346656037 = 0xCBF29CE484222325
GU_FNV64_SEED == << 8997, 33826, 40164, 52210 >>

\* _x *= GU_FNV64_PRIME
GU_FNV64_MUL_DIRECT(x) == Mul(x, GU_FNV64_PRIME)

\* the decomposition with one shift wrong: << 6 for << 5
GU_FNV64_MUL_SHIFT_wrong(x) ==
    Add(x, Add(Add(Add(Add(Add(Shl(x, 1), Shl(x, 4)), Shl(x, 6)), Shl(x, 7)),
                   Shl(x, 8)), Shl(x, 40)))

\* _x += (_x << 1) + (_x << 4) + (_x << 5) + (_x << 7) + (_x << 8) + (_x << 40)
GU_FNV64_MUL_SHIFT(x) ==
    Add(x, Add(Add(Add(Add(Add(Shl(x, 1), Shl(x, 4)), Shl(x, 5)), Shl(x, 7)),
                   Shl(x, 8)), Shl(x, 40)))

GU_FNV64_MUL(cfg, x) ==
    IF cfg.mul = "shift" THEN GU_FNV64_MUL_SHIFT(x) ELSE GU_FNV64_MUL_DIRECT(x)

\* the two branches of the #if exchanged
GU_FNV64_ITERATION_swapped(cfg, s, b) ==
    IF cfg.normal THEN GU_FNV64_MUL(cfg, XorByte(s, b))
    ELSE XorByte(GU_FNV64_MUL(cfg, s), b)

GU_FNV64_ITERATION(cfg, s, b) ==
    IF ~cfg.normal THEN GU_FNV64_MUL(cfg, XorByte(s, b))
    ELSE XorByte(GU_FNV64_MUL(cfg, s), b)

RECURSIVE Loop64(_, _, _, _)
\* while (bp <= be - 2) { two iterations }
Loop64(cfg, buf, bp, s) ==
    IF bp <= Len(buf) - 2
    THEN Loop64(cfg, buf, bp + 2,
                GU_FNV64_ITERATION(cfg, GU_FNV64_ITERATION(cfg, s, buf[bp + 1]),
                                   buf[bp + 2]))
    ELSE [seed |-> s, bp |-> bp]

\* if (bp < be) { one iteration }
Tail64(cfg, buf, r) ==
    IF r.bp < Len(buf)
    THEN [seed |-> GU_FNV64_ITERATION(cfg, r.seed, buf[r.bp + 1]), bp |-> r.bp + 1]
    ELSE r

gu_fnv64a_internal(cfg, buf, seed) == Tail64(cfg, buf, Loop64(cfg, buf, 0, seed))

(* ------------------------------ 128 bits ------------------------------- *)

\* GU_SET128(GU_FNV128_PRIME, 0x0000000001000000, 0x000000000000013B)
GU_FNV128_PRIME == << 315, 0, 0, 0, 0, 256, 0, 0 >>
\* GU_SET128(GU_FNV128_SEED, 0x6C62272E07BB0142, 0x62B821756295C58D)
GU_FNV128_SEED ==
    << 50573, 25237, 8565, 25272, 322, 1979, 10030, 27746 >>

\* __SIZEOF_INT128__: _x *= GU_FNV128_PRIME
GU_FNV128_MUL_DIRECT(x) == Mul(x, GU_FNV128_PRIME)

\* __SIZEOF_INT128__ and GU_FNVBITSHIFT_OPTIMIZATION:
\* _x += (_x << 1) + (_x << 3) + (_x << 4) + (_x << 5) + (_x << 8) + (_x << 88)
GU_FNV128_MUL_SHIFT(x) ==
    Add(x, Add(Add(Add(Add(Add(Shl(x, 1), Shl(x, 3)), Shl(x, 4)), Shl(x, 5)),
                   Shl(x, 8)), Shl(x, 88)))

\* gu_int128.h: the generic 128x128->128 multiplication in place
GU_MUL128_INPLACE(x, y) == Mul(x, y)

\* no __SIZEOF_INT128__, GU_FNV128_FULL_MULTIPLICATION
GU_FNV128_MUL_FULL(x) == GU_MUL128_INPLACE(x, GU_FNV128_PRIME)

\* the carry without the carry of the low partial product
SparseCarry_high_only(lo) ==
    Resize(ShrDigits(Mul(ShrDigits(lo, 2), << 315 >>), 2), 2)

\* the uint32_t carry of the sparse multiplication, as it is computed:
\*   carry = ((lo & 0xffffffff) * 0x13b) >> 32;
\*   carry = ((lo >> 32) * 0x13b + carry) >> 32;
\* every operand is a uint64_t, the assignment truncates to 32 bits
SparseCarry(lo) ==
    LET k  == << 315 >>
        c1 == Resize(ShrDigits(Mul(Resize(SubSeq(lo, 1, 2), 4), k), 2), 2)
    IN  Resize(ShrDigits(Add(Mul(ShrDigits(lo, 2), k), Resize(c1, 4)), 2), 2)

\* no __SIZEOF_INT128__, the default: the sparse multiplication on
\* u64[GU_64LO] and u64[GU_64HI]
GU_FNV128_MUL_SPARSE(x) ==
    LET k     == << 315 >>
        lo    == SubSeq(x, 1, 4)
        hi    == SubSeq(x, 5, 8)
        carry == SparseCarry(lo)
        hi1   == Mul(hi, k)
        hi2   == Add(hi1, Add(Shl(lo, 24), Resize(carry, 4)))
        lo1   == Mul(lo, k)
    IN  lo1 \o hi2

GU_FNV128_MUL(cfg, x) ==
    CASE cfg.mul = "direct" -> GU_FNV128_MUL_DIRECT(x)
      [] cfg.mul = "shift"  -> GU_FNV128_MUL_SHIFT(x)
      [] cfg.mul = "full"   -> GU_FNV128_MUL_FULL(x)
      [] cfg.mul = "sparse" -> GU_FNV128_MUL_SPARSE(x)

\* _s ^= _b, or (_s).u32[GU_32LO] ^= _b: the byte goes into bits 0..7
GU_FNV128_XOR(s, b) == XorByte(s, b)

\* GU_FNV_NORMAL ignored: FNV-1a in every build
GU_FNV128_ITERATION_always_a(cfg, s, b) == GU_FNV128_MUL(cfg, GU_FNV128_XOR(s, b))

GU_FNV128_ITERATION(cfg, s, b) ==
    IF ~cfg.normal THEN GU_FNV128_MUL(cfg, GU_FNV128_XOR(s, b))
    ELSE GU_FNV128_XOR(GU_FNV128_MUL(cfg, s), b)

RECURSIVE Fold128(_, _, _, _)
\* k consecutive GU_FNV128_ITERATION(*seed, *bp++)
Fold128(cfg, buf, r, k) ==
    IF k = 0 THEN r
    ELSE Fold128(cfg, buf,
                 [seed |-> GU_FNV128_ITERATION(cfg, r.seed, buf[r.bp + 1]),
                  bp |-> r.bp + 1], k - 1)

RECURSIVE Loop128(_, _, _)
\* while (bp <= be - 8) { eight iterations }
Loop128(cfg, buf, r) ==
    IF r.bp <= Len(buf) - 8 THEN Loop128(cfg, buf, Fold128(cfg, buf, r, 8)) ELSE r

\* if (bp <= be - 4) { four iterations }
Tail128_4(cfg, buf, r) == IF r.bp <= Len(buf) - 4 THEN Fold128(cfg, buf, r, 4) ELSE r

\* the 2-byte tail with its guard written bp < be - 2
Tail128_2_strict(cfg, buf, r) ==
    IF r.bp < Len(buf) - 2 THEN Fold128(cfg, buf, r, 2) ELSE r

\* if (bp <= be - 2) { two iterations }
Tail128_2(cfg, buf, r) == IF r.bp <= Len(buf) - 2 THEN Fold128(cfg, buf, r, 2) ELSE r

\* if (bp < be) { one iteration }
Tail128_1(cfg, buf, r) == IF r.bp < Len(buf) THEN Fold128(cfg, buf, r, 1) ELSE r

gu_fnv128a_internal(cfg, buf, seed) ==
    Tail128_1(cfg, buf,
        Tail128_2(cfg, buf,
            Tail128_4(cfg, buf, Loop128(cfg, buf, [seed |-> seed, bp |-> 0]))))

(* ------------------------- endianness wrappers ------------------------- *)

\* gu_byteswap.h: the value with its bytes in the opposite order
gu_bswap32(x) == Reverse(x)
gu_bswap64(x) == Reverse(x)
gu_bswap128(x) == Reverse(x)

\* the wrappers without the byte reversal after the call
gu_fnv32a_no_swap_back(cfg, buf, seed) ==
    IF ~cfg.big THEN gu_fnv32a_internal(cfg, buf, seed)
    ELSE gu_fnv32a_internal(cfg, buf, gu_bswap32(seed))

gu_fnv128a_no_swap_back(cfg, buf, seed) ==
    IF ~cfg.big THEN gu_fnv128a_internal(cfg, buf, seed)
    ELSE gu_fnv128a_internal(cfg, buf, gu_bswap128(seed))

\* cfg.big is a build without GU_LITTLE_ENDIAN; with it the name is an alias
gu_fnv32a(cfg, buf, seed) ==
    IF ~cfg.big THEN gu_fnv32a_internal(cfg, buf, seed)
    ELSE LET tmp_seed == gu_bswap32(seed)
             r        == gu_fnv32a_internal(cfg, buf, tmp_seed)
         IN  [seed |-> gu_bswap32(r.seed), bp |-> r.bp]

gu_fnv64a(cfg, buf, seed) ==
    IF ~cfg.big THEN gu_fnv64a_internal(cfg, buf, seed)
    ELSE LET tmp_seed == gu_bswap64(seed)
             r        == gu_fnv64a_internal(cfg, buf, tmp_seed)
         IN  [seed |-> gu_bswap64(r.seed), bp |-> r.bp]

gu_fnv128a(cfg, buf, seed) ==
    IF ~cfg.big THEN gu_fnv128a_internal(cfg, buf, seed)
    ELSE LET r == gu_fnv128a_internal(cfg, buf, gu_bswap128(seed))
         IN  [seed |-> gu_bswap128(r.seed), bp |-> r.bp]

(* ------------------------------ the calls ------------------------------ *)

\* the per-byte iteration, the accumulator and the public name of a build
Iteration(cfg, s, b) ==
    CASE cfg.width = 32  -> GU_FNV32_ITERATION(cfg, s, b)
      [] cfg.width = 64  -> GU_FNV64_ITERATION(cfg, s, b)
      [] cfg.width = 128 -> GU_FNV128_ITERATION(cfg, s, b)

Internal(cfg, buf, seed) ==
    CASE cfg.width = 32  -> gu_fnv32a_internal(cfg, buf, seed)
      [] cfg.width = 64  -> gu_fnv64a_internal(cfg, buf, seed)
      [] cfg.width = 128 -> gu_fnv128a_internal(cfg, buf, seed)

Wrapper(cfg, buf, seed) ==
    CASE cfg.width = 32  -> gu_fnv32a(cfg, buf, seed)
      [] cfg.width = 64  -> gu_fnv64a(cfg, buf, seed)
      [] cfg.width = 128 -> gu_fnv128a(cfg, buf, seed)

Entry(cfg, buf, seed) ==
    IF cfg.entry = "internal" THEN Internal(cfg, buf, seed) ELSE Wrapper(cfg, buf, seed)

OffsetBasis(w) ==
    CASE w = 32 -> GU_FNV32_SEED [] w = 64 -> GU_FNV64_SEED [] w = 128 -> GU_FNV128_SEED

(* ------------------------------- bounds -------------------------------- *)

\* the longest buffer of a single call
MaxLen == 16

\* the calls of a caller that re-seeds, and the bytes they hash in all
MaxCalls == 2
MaxChain == 16

Widths == {32, 64, 128}

\* the multiplication strategies a build of each width can select
Muls(w) == IF w = 128 THEN {"direct", "shift", "full", "sparse"} ELSE {"direct", "shift"}

\* a build (its width, GU_FNV_NORMAL, its multiplication, its byte order)
\* and the name the caller uses
Builds ==
    { c \in [width : Widths, normal : BOOLEAN, mul : {"direct", "shift", "full", "sparse"},
             big : BOOLEAN, entry : {"internal", "wrapper"}] : c.mul \in Muls(c.width) }

\* a seed whose low half makes both partial products of the sparse
\* multiplication carry: 0x8000000000000000 0D00D00DFFFFFFFF
Edge(w) ==
    IF w = 128 THEN << 65535, 65535, 53261, 3328, 0, 0, 0, 32768 >>
    ELSE [i \in 1..(w \div 16) |-> IF i = 1 THEN 1 ELSE IF i = w \div 16 THEN 32768 ELSE 0]

\* the seeds a caller starts from: the offset basis, all ones, and Edge
Seeds(w) == { OffsetBasis(w), [i \in 1..(w \div 16) |-> 65535], Edge(w) }

\* the caller's data: byte i (from 1) of one of two byte streams,
\* "abcdefg..." and a stream of bytes with high bits set
StreamByte(k, i) == IF k = 1 THEN 96 + i ELSE (172 + 83 * i) % 256

\* the len bytes that follow the first off bytes of stream k
Window(k, off, len) == [i \in 1..len |-> StreamByte(k, off + i)]

(* ------------------------------ the state ------------------------------ *)

VARIABLES
    cfg,      \* the build and the name the caller uses
    stream,   \* the caller's data
    plan,     \* [calls, bytes]: how many calls the caller makes, on how many bytes
    origin,   \* the seed the caller started from
    hist,     \* every byte hashed since origin, over all the calls
    calls,    \* the calls that have returned
    buf,      \* the buffer of the last call
    seed_in,  \* *seed when the last call was made
    seed,     \* *seed now
    bp        \* the cursor of the last call at its assertion

vars == << cfg, stream, plan, origin, hist, calls, buf, seed_in, seed, bp >>

Start ==
    /\ seed = origin
    /\ seed_in = origin
    /\ hist = << >>
    /\ buf = << >>
    /\ calls = 0
    /\ bp = 0

\* one call, on any build, seed and buffer
Init ==
    /\ cfg \in Builds
    /\ stream \in {1, 2}
    /\ plan = [calls |-> 1, bytes |-> MaxLen]
    /\ origin \in Seeds(cfg.width)
    /\ Start

\* a caller that feeds the seed a call left into the next call
InitChain ==
    /\ cfg \in { c \in Builds : c.mul = "direct" }
    /\ stream = 1
    /\ plan = [calls |-> MaxCalls, bytes |-> MaxChain]
    /\ origin = OffsetBasis(cfg.width)
    /\ Start

\* the caller hashes the next len bytes of its data into the seed it holds
Call(len) ==
    LET b == Window(stream, Len(hist), len)
        r == Entry(cfg, b, seed)
    IN  /\ buf' = b
        /\ hist' = hist \o b
        /\ seed_in' = seed
        /\ seed' = r.seed
        /\ bp' = r.bp
        /\ calls' = calls + 1
        /\ UNCHANGED << cfg, stream, plan, origin >>

\* gu_fnv32a_internal, gu_fnv64a_internal or gu_fnv128a_internal is called
CallInternal ==
    /\ cfg.entry = "internal"
    /\ calls < plan.calls
    /\ \E len \in 0..(plan.bytes - Len(hist)) : Call(len)

\* gu_fnv32a, gu_fnv64a or gu_fnv128a is called
CallWrapper ==
    /\ cfg.entry = "wrapper"
    /\ calls < plan.calls
    /\ \E len \in 0..(plan.bytes - Len(hist)) : Call(len)

Next == CallInternal \/ CallWrapper

Spec == Init /\ [][Next]_vars

SpecChain == InitChain /\ [][Next]_vars

(* ------------------------------ the claims ----------------------------- *)

RECURSIVE RefFold(_, _, _, _)
\* the reference: the per-byte iteration on bytes i, i+1, ..., Len(buf) of
\* buf, in that order, one at a time
RefFold(c, b, i, s) ==
    IF i > Len(b) THEN s ELSE RefFold(c, b, i + 1, Iteration(c, s, b[i]))

\* C1: the seed an accumulator leaves is the per-byte iteration applied to
\* bytes 0 .. len-1 in order, each once, for every width, ordering,
\* multiplication, seed and buffer length.
C1_FoldsEveryByteOnce ==
    (calls > 0 /\ cfg.entry = "internal") => seed = RefFold(cfg, buf, 1, seed_in)

\* a 128-bit call on 15 bytes: one 8-byte round and the 4, 2 and 1 byte tails
C1_Reached ==
    /\ calls > 0 /\ cfg.entry = "internal"
    /\ cfg.width = 128 /\ Len(buf) = 15
    /\ seed = RefFold(cfg, buf, 1, seed_in) /\ seed # seed_in

\* C2: on a big-endian target the wrapper returns the digest the
\* little-endian pass-through returns for the same seed value and buffer.
C2_SameDigestOnBothByteOrders ==
    (calls > 0 /\ cfg.entry = "wrapper" /\ cfg.big)
        => seed = Wrapper([cfg EXCEPT !.big = FALSE], buf, seed_in).seed

ShiftForm(w, x) ==
    CASE w = 32 -> GU_FNV32_MUL_SHIFT(x) [] w = 64 -> GU_FNV64_MUL_SHIFT(x)
      [] w = 128 -> GU_FNV128_MUL_SHIFT(x)

DirectForm(w, x) ==
    CASE w = 32 -> GU_FNV32_MUL_DIRECT(x) [] w = 64 -> GU_FNV64_MUL_DIRECT(x)
      [] w = 128 -> GU_FNV128_MUL_DIRECT(x)

OtherMul(m) == IF m = "shift" THEN "direct" ELSE "shift"

\* C3: the shift-and-add form equals the multiplication by the prime modulo
\* 2^width, on every seed a call reads or leaves; and a call leaves the seed
\* the build with the other of the two strategies leaves.
C3_ShiftFormIsPrimeProduct ==
    /\ \A x \in {seed_in, seed} : ShiftForm(cfg.width, x) = DirectForm(cfg.width, x)
    /\ (calls > 0 /\ cfg.mul \in {"direct", "shift"})
          => seed = Entry([cfg EXCEPT !.mul = OtherMul(cfg.mul)], buf, seed_in).seed

\* a 64-bit shift build has hashed 5 bytes
C3_Reached ==
    /\ calls > 0 /\ cfg.width = 64 /\ cfg.mul = "shift" /\ Len(buf) = 5
    /\ seed = Entry([cfg EXCEPT !.mul = "direct"], buf, seed_in).seed

\* the carry out of lo * 0x13B: digits 5..8 of the 128-bit product
ExactCarry(lo) == SubSeq(Mul(Resize(lo, 8), << 315 >>), 5, 8)

\* C4: the sparse multiplication equals the 128-bit multiplication by
\* 2^88 + 0x13B, and its 32-bit carry is the carry out of lo * 0x13B, on
\* every 128-bit seed a call reads or leaves.
C4_SparseIsPrimeProduct ==
    cfg.width = 128 =>
        \A x \in {seed_in, seed} :
            /\ GU_FNV128_MUL_SPARSE(x) = GU_FNV128_MUL_DIRECT(x)
            /\ Resize(SparseCarry(SubSeq(x, 1, 4)), 4) = ExactCarry(SubSeq(x, 1, 4))

\* a sparse build multiplied a seed whose low partial product decides the carry
C4_Reached ==
    /\ calls > 0 /\ cfg.width = 128 /\ cfg.mul = "sparse" /\ ~cfg.normal
    /\ Len(buf) > 0 /\ seed_in = Edge(128)
    /\ SparseCarry(SubSeq(XorByte(seed_in, buf[1]), 1, 4))
          # SparseCarry_high_only(SubSeq(XorByte(seed_in, buf[1]), 1, 4))

\* C5: at the final assertion the cursor is the buffer end.
C5_CursorAtEnd == calls > 0 => bp = Len(buf)

\* a 128-bit call on 7 bytes (tails of 4, 2 and 1) and a 32-bit call on 3
C5_Reached ==
    /\ calls > 0 /\ bp = Len(buf)
    /\ \/ cfg.width = 128 /\ Len(buf) = 7
       \/ cfg.width = 32 /\ Len(buf) = 3

\* C6: a call with length 0 leaves the seed as it was, through the
\* accumulators and through the big-endian wrapper.
C6_EmptyLeavesSeed == (calls > 0 /\ Len(buf) = 0) => seed = seed_in

\* the big-endian wrapper returned from a call on no bytes, on a seed that
\* is not its own byte reversal
C6_Reached ==
    /\ calls > 0 /\ Len(buf) = 0 /\ cfg.entry = "wrapper" /\ cfg.big
    /\ seed = seed_in /\ Reverse(seed_in) # seed_in

\* C7: FNV-1a, 32 bits: the byte 0x61 from GU_FNV32_SEED leaves 0xe40c292c,
\* with either multiplication.
C7_KnownAnswer32 ==
    (/\ calls > 0 /\ cfg.width = 32 /\ ~cfg.normal /\ cfg.entry = "internal"
     /\ seed_in = GU_FNV32_SEED /\ buf = << 97 >>)
        => seed = << 10540, 58380 >>

C7_Reached ==
    /\ calls > 0 /\ cfg.width = 32 /\ ~cfg.normal /\ cfg.entry = "internal"
    /\ seed_in = GU_FNV32_SEED /\ buf = << 97 >>
    /\ cfg.mul = "direct" /\ seed = << 10540, 58380 >>

\* C8: FNV-1a, 64 bits: "a" from GU_FNV64_SEED leaves 0xaf63dc4c8601ec8c,
\* with either multiplication.
C8_KnownAnswer64 ==
    (/\ calls > 0 /\ cfg.width = 64 /\ ~cfg.normal /\ cfg.entry = "internal"
     /\ seed_in = GU_FNV64_SEED /\ buf = << 97 >>)
        => seed = << 60556, 34305, 56396, 44899 >>

C8_Reached ==
    /\ calls > 0 /\ cfg.width = 64 /\ ~cfg.normal /\ cfg.entry = "internal"
    /\ seed_in = GU_FNV64_SEED /\ buf = << 97 >>
    /\ cfg.mul = "shift" /\ seed = << 60556, 34305, 56396, 44899 >>

\* C9: the two orderings are different functions: from the offset basis, on
\* every non-empty buffer hashed here, the build with the other ordering
\* leaves another seed.
C9_OrderingsDiffer ==
    (/\ calls > 0 /\ cfg.entry = "internal"
     /\ seed_in = OffsetBasis(cfg.width) /\ Len(buf) >= 1)
        => seed # Internal([cfg EXCEPT !.normal = ~cfg.normal], buf, seed_in).seed

\* an FNV-1 build has hashed "a" from the offset basis
C9_Reached ==
    /\ calls > 0 /\ cfg.entry = "internal" /\ cfg.normal
    /\ seed_in = OffsetBasis(cfg.width) /\ buf = << 97 >>
    /\ seed # Internal([cfg EXCEPT !.normal = FALSE], buf, seed_in).seed

\* C10: the seed left by calls that each start from the seed the call
\* before left is the seed one call on the concatenation leaves.
C10_ReseedingComposes == calls > 0 => seed = Entry(cfg, hist, origin).seed

\* the big-endian 128-bit wrapper was called on 3 bytes and then on 11
C10_Reached ==
    /\ calls = 2 /\ cfg.entry = "wrapper" /\ cfg.big /\ cfg.width = 128
    /\ Len(hist) = 14 /\ Len(buf) = 11
    /\ seed = Entry(cfg, hist, origin).seed

====
